---- MODULE Spec2Model ----
(***************************************************************************)
(* simpleperf: a TCP throughput probe.  One client process (client_mode,   *)
(* its send_data worker threads and its periodic_report daemon thread) and *)
(* one server process (server_mode's accept loop and one handle_client     *)
(* thread per accepted connection), joined by one byte stream per          *)
(* connection and direction.                                               *)
(***************************************************************************)
EXTENDS Integers, Sequences, FiniteSets, TLC

\* ---------------------------------------------------------------- bounds
\* buffer_size, scaled down from the 1024 of main()
BufferSize == 4
\* largest -P value explored (the program allows 1..5)
MaxParallel == 2
\* largest byte target (-n) explored
MaxBytes == 5
\* largest sum of the byte targets of all connections explored
MaxTotal == 6
\* largest -t value explored
MaxDuration == 3
\* largest -i value explored
MaxInterval == 2
\* the clock stops at this reading
MaxTime == 4
\* a duration-mode worker stops sending once it has counted this many bytes
MaxData == 8
\* number of connections the transport may reset in one run
MaxResets == 1
\* largest byte target explored in a whole run with the reporter
MaxTimedBytes == 2

Conns == 1..MaxParallel

Min(a, b) == IF a < b THEN a ELSE b

\* ------------------------------------------------------------ wire bytes
Bye == <<"b", "y", "e">>
Ack == <<"a", "c", "k">>
\* b"0" * n
Filler(n) == [i \in 1..n |-> "0"]
\* data[:n]
Slice(data, n) == SubSeq(data, 1, Min(n, Len(data)))
\* data[n:]
Drop(data, n) == SubSeq(data, n + 1, Len(data))
\* pat in data  (bytes substring test)
Contains(data, pat) ==
    \E i \in 1..(Len(data) - Len(pat) + 1) :
        SubSeq(data, i, i + Len(pat) - 1) = pat

\* b"bye" in data  (handle_client's end-of-transfer test)
SentinelIn(chunk) == Contains(chunk, Bye)
\* data_received += len(data)
Counted(total, chunk) == total + Len(chunk)
\* (a variant of ReceivedAfter: the chunk is counted before the sentinel test)
ReceivedAfterCountFirst(total, chunk) == Counted(total, chunk)
\* the total after one pass of the receive loop's body over a chunk: the
\* sentinel test comes first, and the chunk that holds it is not counted
ReceivedAfter(total, chunk) ==
    IF SentinelIn(chunk) THEN total ELSE Counted(total, chunk)
\* (a variant of SendSlice: the whole buffer is sent, whatever remains)
SendSliceWhole(n) == Filler(BufferSize)
\* data[:bytes_to_send], with data = b"0" * buffer_size
SendSlice(n) == Slice(Filler(BufferSize), n)

\* largest number written in a -n argument
MaxNum == 12
\* number of threads of one process that call print_statistics
MaxPrinters == 2
\* largest number of records one thread prints
MaxCalls == 2

Printers == 1..MaxPrinters

\* ------------------------------------------------------------- str, int
Max(a, b) == IF a > b THEN a ELSE b
DigitChars == <<"0", "1", "2", "3", "4", "5", "6", "7", "8", "9">>
\* str(n) for n >= 0
RECURSIVE Str(_)
Str(n) == IF n < 10 THEN <<DigitChars[n + 1]>>
          ELSE Str(n \div 10) \o <<DigitChars[(n % 10) + 1]>>
\* s is a string int() converts: one or more decimal digits
IsInt(s) ==
    /\ s # <<>>
    /\ \A i \in 1..Len(s) : \E d \in 1..10 : s[i] = DigitChars[d]
\* int(s) for such a string
RECURSIVE ToInt(_)
ToInt(s) ==
    IF s = <<>> THEN 0
    ELSE 10 * ToInt(SubSeq(s, 1, Len(s) - 1))
         + ((CHOOSE d \in 1..10 : s[Len(s)] = DigitChars[d]) - 1)
\* s.lower(), on the letters that occur
LowerChar(ch) == CASE ch = "B" -> "b" [] ch = "K" -> "k" [] ch = "M" -> "m"
                   [] OTHER -> ch
Lower(s) == [i \in 1..Len(s) |-> LowerChar(s[i])]
\* s[-2:] and s[:-2]
Last2(s) == SubSeq(s, Max(1, Len(s) - 1), Len(s))
AllButLast2(s) == SubSeq(s, 1, Len(s) - 2)
\* list.index(x), counted from 0; -1 stands for ValueError
Index(list, x) ==
    IF \E i \in 1..Len(list) : list[i] = x
    THEN (CHOOSE i \in 1..Len(list) :
              list[i] = x /\ \A j \in 1..(i - 1) : list[j] # x) - 1
    ELSE -1
RECURSIVE Pow(_, _)
Pow(b, e) == IF e = 0 THEN 1 ELSE b * Pow(b, e - 1)

\* the unit suffixes, in every letter case
Suffixes == {<<"B">>, <<"b">>,
             <<"K", "B">>, <<"K", "b">>, <<"k", "B">>, <<"k", "b">>,
             <<"M", "B">>, <<"M", "b">>, <<"m", "B">>, <<"m", "b">>}
NumArg(n, sfx) == Str(n) \o sfx
\* the -n arguments explored: a positive number and a unit suffix
NumArgs == {NumArg(n, sfx) : n \in 1..MaxNum, sfx \in Suffixes}

\* the value of a name that has not been assigned yet
Unbound == <<"unbound">>
\* Python's None as a thread's _return_value
None == <<>>

VARIABLES
    \* TransferConfig (args of client_mode); num_bytes = 0 and interval = 0 are None
    parallel, num_bytes, duration, interval,
    \* time.time()
    now,
    \* client main thread: position and loop index
    cliPc, idx,
    \* sockets and transport, per connection
    cSock, sSock, backlog, reset, c2s, s2c,
    \* send_data worker threads
    wPc, data_sent, bytes_to_send, start_time, result,
    \* the one-element list shared by all workers and the reporter
    data_sent_ref,
    \* periodic_report thread
    rPc, current_interval, prev_data_sent, rWake,
    \* handle_client threads
    hPc, data, data_received,
    \* printed records and print_statistics.header_printed, per process
    cliOut, srvOut, header_printed,
    \* main(): the -n string (args.num), the position in validate_args and
    \* client_mode's conversion, and args.num_bytes
    num, aPc, args_num_bytes,
    \* print_statistics statement by statement, in one process: the role of
    \* the process, whether the function attribute exists, each printing
    \* thread's position and calls left, and the lines on standard output
    is_server, has_attr, pPc, calls, stdout

cfgVars == <<parallel, num_bytes, duration, interval>>
netVars == <<cSock, sSock, backlog, reset, c2s, s2c>>
workerVars == <<wPc, data_sent, bytes_to_send, start_time, result>>
reportVars == <<rPc, current_interval, prev_data_sent, rWake>>
handlerVars == <<hPc, data, data_received>>
outVars == <<cliOut, srvOut, header_printed>>
argVars == <<num, aPc, args_num_bytes>>
printVars == <<is_server, has_attr, pPc, calls, stdout>>
\* the variables no step of a transfer changes
otherVars == <<argVars, printVars>>
vars == <<cfgVars, now, cliPc, idx, netVars, workerVars, data_sent_ref,
          reportVars, handlerVars, outVars, otherVars>>

\* ------------------------------------------------------------------ Init
Init ==
    /\ parallel \in 1..MaxParallel
    /\ num_bytes \in 0..MaxBytes
    /\ parallel * num_bytes <= MaxTotal
    /\ duration \in 1..MaxDuration
    /\ interval \in 0..MaxInterval
    /\ now = 0
    /\ cliPc = "connect"
    /\ idx = 1
    /\ cSock = [c \in Conns |-> "new"]
    /\ sSock = [c \in Conns |-> "none"]
    /\ backlog = <<>>
    /\ reset = [c \in Conns |-> FALSE]
    /\ c2s = [c \in Conns |-> <<>>]
    /\ s2c = [c \in Conns |-> <<>>]
    /\ wPc = [c \in Conns |-> "idle"]
    /\ data_sent = [c \in Conns |-> 0]
    /\ bytes_to_send = [c \in Conns |-> 0]
    /\ start_time = [c \in Conns |-> 0]
    /\ result = [c \in Conns |-> None]
    /\ data_sent_ref = 0
    /\ rPc = "off"
    /\ current_interval = 0
    /\ prev_data_sent = 0
    /\ rWake = 0
    /\ hPc = [c \in Conns |-> "none"]
    /\ data = [c \in Conns |-> Unbound]
    /\ data_received = [c \in Conns |-> 0]
    /\ cliOut = <<>>
    /\ srvOut = <<>>
    /\ header_printed = [server |-> FALSE, client |-> FALSE]
    /\ num \in {None} \cup NumArgs
    /\ aPc = IF num = None THEN "off" ELSE "validate"
    /\ args_num_bytes = -1
    /\ is_server \in BOOLEAN
    /\ has_attr = FALSE
    /\ calls \in [Printers -> 0..MaxCalls]
    /\ pPc = [t \in Printers |-> IF calls[t] = 0 THEN "off" ELSE "hasattr"]
    /\ stdout = <<>>

\* ------------------------------------------------------ print_statistics
\* the lines print_statistics writes for one record, given the header flag
StatLines(printed, rec) ==
    IF printed THEN <<rec>> ELSE <<[kind |-> "header", id |-> 0, bytes |-> 0], rec>>

\* -------------------------------------------------------------- the clock
Tick ==
    /\ now < MaxTime
    /\ now' = now + 1
    /\ UNCHANGED <<cfgVars, otherVars, cliPc, idx, netVars, workerVars, data_sent_ref,
                   reportVars, handlerVars, outVars>>

\* ------------------------------------------------- client_mode, main thread
\* client_socket.connect(...) for the idx-th socket; after the last one the
\* shared cell is created and the reporter thread is started
Connect ==
    /\ cliPc = "connect"
    /\ cSock' = [cSock EXCEPT ![idx] = "open"]
    /\ backlog' = Append(backlog, idx)
    /\ IF idx < parallel
       THEN /\ idx' = idx + 1
            /\ UNCHANGED <<cliPc, data_sent_ref, reportVars>>
       ELSE /\ idx' = 1
            /\ cliPc' = "start"
            /\ data_sent_ref' = 0
            /\ IF interval # 0
               THEN /\ rPc' = "sleep"
                    /\ rWake' = now + interval
                    /\ UNCHANGED <<current_interval, prev_data_sent>>
               ELSE UNCHANGED reportVars
    /\ UNCHANGED <<cfgVars, otherVars, now, sSock, reset, c2s, s2c, workerVars,
                   handlerVars, outVars>>

\* thread.start() for the idx-th worker: send_data begins
StartThread ==
    /\ cliPc = "start"
    /\ wPc' = [wPc EXCEPT ![idx] = "loop"]
    /\ start_time' = [start_time EXCEPT ![idx] = now]
    /\ data_sent' = [data_sent EXCEPT ![idx] = 0]
    /\ bytes_to_send' = [bytes_to_send EXCEPT ![idx] = num_bytes]
    /\ IF idx < parallel
       THEN idx' = idx + 1 /\ UNCHANGED cliPc
       ELSE idx' = 1 /\ cliPc' = "join"
    /\ UNCHANGED <<cfgVars, otherVars, now, netVars, result, data_sent_ref, reportVars,
                   handlerVars, outVars>>

\* (a variant of Join: the loop takes whichever worker has returned and not
\* been reported yet, instead of the idx-th)
JoinAnyCompleted ==
    /\ cliPc = "join"
    /\ \E c \in 1..parallel :
         /\ wPc[c] = "returned"
         /\ \A i \in 1..Len(cliOut) : cliOut[i].id # c
         /\ cliOut' = cliOut \o StatLines(header_printed.client,
                [kind |-> "final", id |-> c, bytes |-> result[c][1]])
    /\ cliPc' = "bye"
    /\ header_printed' = [header_printed EXCEPT !.client = TRUE]
    /\ UNCHANGED <<cfgVars, otherVars, now, idx, netVars, workerVars, data_sent_ref,
                   reportVars, handlerVars, srvOut>>

\* (a variant of Join: the record of the idx-th connection is printed from
\* the worker's running total, without waiting for the worker to return)
JoinWithoutWaiting ==
    /\ cliPc = "join"
    /\ wPc[idx] # "raised"
    /\ cliPc' = "bye"
    /\ cliOut' = cliOut \o StatLines(header_printed.client,
           [kind |-> "final", id |-> idx, bytes |-> data_sent[idx]])
    /\ header_printed' = [header_printed EXCEPT !.client = TRUE]
    /\ UNCHANGED <<cfgVars, otherVars, now, idx, netVars, workerVars, data_sent_ref,
                   reportVars, handlerVars, srvOut>>

\* thread.join(); data_sent, elapsed_time = thread.result(); print_statistics
Join ==
    /\ cliPc = "join"
    /\ wPc[idx] \in {"returned", "raised"}
    /\ IF result[idx] = None
       THEN \* unpacking None raises TypeError in the main thread
            /\ cliPc' = "crashed"
            /\ UNCHANGED outVars
       ELSE /\ cliPc' = "bye"
            /\ cliOut' = cliOut \o StatLines(header_printed.client,
                   [kind |-> "final", id |-> idx, bytes |-> result[idx][1]])
            /\ header_printed' = [header_printed EXCEPT !.client = TRUE]
            /\ UNCHANGED srvOut
    /\ UNCHANGED <<cfgVars, otherVars, now, idx, netVars, workerVars, data_sent_ref,
                   reportVars, handlerVars>>

\* client_socket.send(b"bye")
SendBye ==
    /\ cliPc = "bye"
    /\ ~reset[idx]
    /\ c2s' = [c2s EXCEPT ![idx] = @ \o Bye]
    /\ cliPc' = "recvack"
    /\ UNCHANGED <<cfgVars, otherVars, now, idx, cSock, sSock, backlog, reset, s2c,
                   workerVars, data_sent_ref, reportVars, handlerVars, outVars>>

\* (a variant of RecvAck: recv(3) does not block, it returns whatever has
\* arrived so far, possibly nothing)
RecvAckWithoutWaiting ==
    /\ cliPc = "recvack"
    /\ ~reset[idx]
    /\ \E n \in 0..Min(3, Len(s2c[idx])) :
         s2c' = [s2c EXCEPT ![idx] = Drop(@, n)]
    /\ cliPc' = "close"
    /\ UNCHANGED <<cfgVars, otherVars, now, idx, cSock, sSock, backlog, reset,
                   c2s, workerVars, data_sent_ref, reportVars, handlerVars,
                   outVars>>

\* client_socket.recv(3): returns as soon as the peer's bytes (or its close)
\* arrive; the value is discarded
RecvAck ==
    /\ cliPc = "recvack"
    /\ ~reset[idx]
    /\ s2c[idx] # <<>> \/ sSock[idx] = "closed"
    /\ \E n \in 0..Min(3, Len(s2c[idx])) :
         /\ (n = 0) = (s2c[idx] = <<>>)
         /\ s2c' = [s2c EXCEPT ![idx] = Drop(@, n)]
    /\ cliPc' = "close"
    /\ UNCHANGED <<cfgVars, otherVars, now, idx, cSock, sSock, backlog, reset, c2s,
                   workerVars, data_sent_ref, reportVars, handlerVars, outVars>>

\* (a variant of Close: the socket is closed as soon as the sentinel is sent,
\* without the recv(3) that waits for the acknowledgement)
CloseWithoutAck ==
    /\ cliPc \in {"recvack", "close"}
    /\ cSock' = [cSock EXCEPT ![idx] = "closed"]
    /\ IF idx < parallel
       THEN /\ idx' = idx + 1
            /\ cliPc' = "join"
            /\ UNCHANGED rPc
       ELSE /\ idx' = idx
            /\ cliPc' = "done"
            /\ rPc' = IF rPc = "sleep" THEN "killed" ELSE rPc
    /\ UNCHANGED <<cfgVars, otherVars, now, sSock, backlog, reset, c2s, s2c, workerVars,
                   data_sent_ref, current_interval, prev_data_sent, rWake,
                   handlerVars, outVars>>

\* (a variant of Close: before client_mode returns it joins the reporter)
CloseAfterReporter ==
    /\ cliPc = "close"
    /\ idx = parallel => rPc \in {"off", "done"}
    /\ cSock' = [cSock EXCEPT ![idx] = "closed"]
    /\ IF idx < parallel
       THEN /\ idx' = idx + 1
            /\ cliPc' = "join"
       ELSE /\ idx' = idx
            /\ cliPc' = "done"
    /\ UNCHANGED <<cfgVars, otherVars, now, sSock, backlog, reset, c2s, s2c,
                   workerVars, data_sent_ref, reportVars, handlerVars, outVars>>

\* client_socket.close(); next connection of the join loop, or return.  When
\* client_mode returns the process ends and the daemon reporter dies with it.
Close ==
    /\ cliPc = "close"
    /\ cSock' = [cSock EXCEPT ![idx] = "closed"]
    /\ IF idx < parallel
       THEN /\ idx' = idx + 1
            /\ cliPc' = "join"
            /\ UNCHANGED rPc
       ELSE /\ idx' = idx
            /\ cliPc' = "done"
            /\ rPc' = IF rPc = "sleep" THEN "killed" ELSE rPc
    /\ UNCHANGED <<cfgVars, otherVars, now, sSock, backlog, reset, c2s, s2c, workerVars,
                   data_sent_ref, current_interval, prev_data_sent, rWake,
                   handlerVars, outVars>>

\* send or recv of the main thread on a reset connection raises
MainRaises ==
    /\ cliPc \in {"bye", "recvack"}
    /\ reset[idx]
    /\ cliPc' = "crashed"
    /\ UNCHANGED <<cfgVars, otherVars, now, idx, netVars, workerVars, data_sent_ref,
                   reportVars, handlerVars, outVars>>

\* after an uncaught exception in the main thread the process ends once the
\* non-daemon worker threads have ended; its sockets are closed by the OS
ProcessExit ==
    /\ cliPc = "crashed"
    /\ \A c \in 1..parallel : wPc[c] \in {"returned", "raised"}
    /\ cliPc' = "exited"
    /\ cSock' = [c \in Conns |-> IF cSock[c] = "open" THEN "closed" ELSE cSock[c]]
    /\ rPc' = IF rPc = "sleep" THEN "killed" ELSE rPc
    /\ UNCHANGED <<cfgVars, otherVars, now, idx, sSock, backlog, reset, c2s, s2c,
                   workerVars, data_sent_ref, current_interval, prev_data_sent,
                   rWake, handlerVars, outVars>>

\* ------------------------------------------------------------- send_data
\* one iteration of the byte-count loop: send(data[:bytes_to_send]) accepts
\* bytes_sent bytes, 1 <= bytes_sent <= len of the slice
SendBytes(c) ==
    /\ wPc[c] = "loop"
    /\ num_bytes # 0
    /\ bytes_to_send[c] > 0
    /\ ~reset[c]
    /\ \E bytes_sent \in 1..Len(SendSlice(bytes_to_send[c])) :
         /\ c2s' = [c2s EXCEPT ![c] = @ \o Filler(bytes_sent)]
         /\ bytes_to_send' = [bytes_to_send EXCEPT ![c] = @ - bytes_sent]
         /\ data_sent' = [data_sent EXCEPT ![c] = @ + bytes_sent]
         /\ data_sent_ref' = data_sent[c] + bytes_sent
    /\ UNCHANGED <<cfgVars, otherVars, now, cliPc, idx, cSock, sSock, backlog, reset, s2c,
                   wPc, start_time, result, reportVars, handlerVars, outVars>>

\* (a variant of LoopEnter: the body also begins when the time is up)
LoopEnterLate(c) ==
    /\ wPc[c] = "loop"
    /\ num_bytes = 0
    /\ wPc' = [wPc EXCEPT ![c] = "send"]
    /\ UNCHANGED <<cfgVars, otherVars, now, cliPc, idx, netVars, data_sent,
                   bytes_to_send, start_time, result, data_sent_ref,
                   reportVars, handlerVars, outVars>>

\* while time.time() - start_time < duration: the test holds, the body begins
LoopEnter(c) ==
    /\ wPc[c] = "loop"
    /\ num_bytes = 0
    /\ now - start_time[c] < duration
    /\ wPc' = [wPc EXCEPT ![c] = "send"]
    /\ UNCHANGED <<cfgVars, otherVars, now, cliPc, idx, netVars, data_sent,
                   bytes_to_send, start_time, result, data_sent_ref,
                   reportVars, handlerVars, outVars>>

\* the body of the duration loop: send(data) accepts some of the buffer,
\* data_sent grows by len(data)
SendDuration(c) ==
    /\ wPc[c] = "send"
    /\ data_sent[c] + BufferSize <= MaxData
    /\ ~reset[c]
    /\ \E bytes_sent \in 1..BufferSize :
         c2s' = [c2s EXCEPT ![c] = @ \o Filler(bytes_sent)]
    /\ data_sent' = [data_sent EXCEPT ![c] = @ + Len(Filler(BufferSize))]
    /\ data_sent_ref' = data_sent[c] + Len(Filler(BufferSize))
    /\ wPc' = [wPc EXCEPT ![c] = "loop"]
    /\ UNCHANGED <<cfgVars, otherVars, now, cliPc, idx, cSock, sSock, backlog, reset, s2c,
                   bytes_to_send, start_time, result, reportVars,
                   handlerVars, outVars>>

\* the loop condition is false: fall through to time.sleep(0.01)
LoopExit(c) ==
    /\ wPc[c] = "loop"
    /\ IF num_bytes # 0
       THEN ~(bytes_to_send[c] > 0)
       ELSE ~(now - start_time[c] < duration)
    /\ wPc' = [wPc EXCEPT ![c] = "sleep"]
    /\ UNCHANGED <<cfgVars, otherVars, now, cliPc, idx, netVars, data_sent, bytes_to_send,
                   start_time, result, data_sent_ref, reportVars, handlerVars,
                   outVars>>

\* return data_sent, elapsed_time  (stored by ReturnValueThread.run)
Return(c) ==
    /\ wPc[c] = "sleep"
    /\ wPc' = [wPc EXCEPT ![c] = "returned"]
    /\ result' = [result EXCEPT ![c] = <<data_sent[c], now - start_time[c]>>]
    /\ UNCHANGED <<cfgVars, otherVars, now, cliPc, idx, netVars, data_sent, bytes_to_send,
                   start_time, data_sent_ref, reportVars, handlerVars, outVars>>

\* client_socket.send raises in the worker: the thread ends, _return_value
\* stays None
SendRaises(c) ==
    /\ reset[c]
    /\ IF num_bytes # 0
       THEN wPc[c] = "loop" /\ bytes_to_send[c] > 0
       ELSE wPc[c] = "send"
    /\ wPc' = [wPc EXCEPT ![c] = "raised"]
    /\ UNCHANGED <<cfgVars, otherVars, now, cliPc, idx, netVars, data_sent, bytes_to_send,
                   start_time, result, data_sent_ref, reportVars, handlerVars,
                   outVars>>

\* ------------------------------------------------------- periodic_report
\* (a variant of Report: the loop goes on while current_interval <= duration)
ReportInclusive ==
    /\ rPc = "sleep"
    /\ now >= rWake
    /\ cliOut' = cliOut \o StatLines(header_printed.client,
           [kind |-> "interim", id |-> 1,
            bytes |-> data_sent_ref - prev_data_sent])
    /\ header_printed' = [header_printed EXCEPT !.client = TRUE]
    /\ prev_data_sent' = data_sent_ref
    /\ current_interval' = current_interval + interval
    /\ IF current_interval + interval <= duration
       THEN rWake' = now + interval /\ UNCHANGED rPc
       ELSE rPc' = "done" /\ UNCHANGED rWake
    /\ UNCHANGED <<cfgVars, otherVars, now, cliPc, idx, netVars, workerVars,
                   data_sent_ref, handlerVars, srvOut>>

\* one iteration: the sleep ends, the cell is sampled, a record is printed
Report ==
    /\ rPc = "sleep"
    /\ now >= rWake
    /\ cliOut' = cliOut \o StatLines(header_printed.client,
           [kind |-> "interim", id |-> 1,
            bytes |-> data_sent_ref - prev_data_sent])
    /\ header_printed' = [header_printed EXCEPT !.client = TRUE]
    /\ prev_data_sent' = data_sent_ref
    /\ current_interval' = current_interval + interval
    /\ IF current_interval + interval < duration
       THEN rWake' = now + interval /\ UNCHANGED rPc
       ELSE rPc' = "done" /\ UNCHANGED rWake
    /\ UNCHANGED <<cfgVars, otherVars, now, cliPc, idx, netVars, workerVars,
                   data_sent_ref, handlerVars, srvOut>>

\* --------------------------------------------------------- server_mode
\* server_socket.accept() and client_thread.start()
Accept ==
    /\ backlog # <<>>
    /\ LET c == Head(backlog) IN
         /\ sSock' = [sSock EXCEPT ![c] = "open"]
         /\ hPc' = [hPc EXCEPT ![c] = "recv"]
         /\ data_received' = [data_received EXCEPT ![c] = 0]
    /\ backlog' = Tail(backlog)
    /\ UNCHANGED <<cfgVars, otherVars, now, cliPc, idx, cSock, reset, c2s, s2c,
                   workerVars, data_sent_ref, reportVars, data, outVars>>

\* one iteration of the receive loop with a non-empty chunk
Recv(c) ==
    /\ hPc[c] = "recv"
    /\ ~reset[c]
    /\ c2s[c] # <<>>
    /\ \E n \in 1..Min(BufferSize, Len(c2s[c])) :
         LET chunk == Slice(c2s[c], n) IN
         /\ data' = [data EXCEPT ![c] = chunk]
         /\ c2s' = [c2s EXCEPT ![c] = Drop(@, n)]
         /\ data_received' = [data_received EXCEPT ![c] = ReceivedAfter(@, chunk)]
         /\ hPc' = [hPc EXCEPT ![c] = IF SentinelIn(chunk) THEN "ack" ELSE "recv"]
    /\ UNCHANGED <<cfgVars, otherVars, now, cliPc, idx, cSock, sSock, backlog, reset, s2c,
                   workerVars, data_sent_ref, reportVars, outVars>>

\* one iteration of the receive loop after the peer closed: recv returns b""
RecvEOF(c) ==
    /\ hPc[c] = "recv"
    /\ ~reset[c]
    /\ c2s[c] = <<>>
    /\ cSock[c] = "closed"
    /\ data' = [data EXCEPT ![c] = <<>>]
    /\ data_received' = [data_received EXCEPT ![c] = ReceivedAfter(@, <<>>)]
    /\ hPc' = [hPc EXCEPT ![c] = IF SentinelIn(<<>>) THEN "ack" ELSE "recv"]
    /\ UNCHANGED <<cfgVars, otherVars, now, cliPc, idx, netVars, workerVars,
                   data_sent_ref, reportVars, outVars>>

\* client_socket.send(b"ack")
SendAck(c) ==
    /\ hPc[c] = "ack"
    /\ ~reset[c]
    /\ s2c' = [s2c EXCEPT ![c] = @ \o Ack]
    /\ hPc' = [hPc EXCEPT ![c] = "close"]
    /\ UNCHANGED <<cfgVars, otherVars, now, cliPc, idx, cSock, sSock, backlog, reset, c2s,
                   workerVars, data_sent_ref, reportVars, data, data_received,
                   outVars>>

\* client_socket.close()
HandlerClose(c) ==
    /\ hPc[c] = "close"
    /\ sSock' = [sSock EXCEPT ![c] = "closed"]
    /\ hPc' = [hPc EXCEPT ![c] = "print"]
    /\ UNCHANGED <<cfgVars, otherVars, now, cliPc, idx, cSock, backlog, reset, c2s, s2c,
                   workerVars, data_sent_ref, reportVars, data, data_received,
                   outVars>>

\* print_statistics(server_id, ..., is_server=True)
HandlerPrint(c) ==
    /\ hPc[c] = "print"
    /\ srvOut' = srvOut \o StatLines(header_printed.server,
           [kind |-> "final", id |-> c, bytes |-> data_received[c]])
    /\ header_printed' = [header_printed EXCEPT !.server = TRUE]
    /\ hPc' = [hPc EXCEPT ![c] = "done"]
    /\ UNCHANGED <<cfgVars, otherVars, now, cliPc, idx, netVars, workerVars,
                   data_sent_ref, reportVars, data, data_received, cliOut>>

\* (a variant of HandlerRaises: the exception ends the server process, and
\* with it every handler thread)
HandlerRaisesEndsAll(c) ==
    /\ hPc[c] \in {"recv", "ack"}
    /\ reset[c]
    /\ hPc' = [d \in Conns |-> IF hPc[d] \in {"none", "done"} THEN hPc[d]
                                ELSE "aborted"]
    /\ UNCHANGED <<cfgVars, otherVars, now, cliPc, idx, netVars, workerVars,
                   data_sent_ref, reportVars, data, data_received, outVars>>

\* recv or send raises in the handler thread: that thread ends
HandlerRaises(c) ==
    /\ hPc[c] \in {"recv", "ack"}
    /\ reset[c]
    /\ hPc' = [hPc EXCEPT ![c] = "aborted"]
    /\ UNCHANGED <<cfgVars, otherVars, now, cliPc, idx, netVars, workerVars,
                   data_sent_ref, reportVars, data, data_received, outVars>>

\* ------------------------------------------------------------ transport
\* the connection is reset under both endpoints; buffered bytes are lost
Reset(c) ==
    /\ cSock[c] = "open"
    /\ sSock[c] # "closed"
    /\ ~reset[c]
    /\ Cardinality({d \in Conns : reset[d]}) < MaxResets
    /\ reset' = [reset EXCEPT ![c] = TRUE]
    /\ c2s' = [c2s EXCEPT ![c] = <<>>]
    /\ s2c' = [s2c EXCEPT ![c] = <<>>]
    /\ UNCHANGED <<cfgVars, otherVars, now, cliPc, idx, cSock, sSock, backlog, workerVars,
                   data_sent_ref, reportVars, handlerVars, outVars>>

\* ------------------------------------------------------------------ Next
Main == Connect \/ StartThread \/ Join \/ SendBye \/ RecvAck \/ Close
Worker(c) == SendBytes(c) \/ LoopExit(c) \/ Return(c)
Handler(c) == Recv(c) \/ SendAck(c) \/ HandlerClose(c) \/ HandlerPrint(c)

\* the steps of a run in which nothing fails
NextOK ==
    \/ Main
    \/ Accept
    \/ \E c \in Conns : Worker(c)
    \/ \E c \in Conns : Handler(c)

\* the steps that follow a transport failure or a crash
Fault ==
    \/ MainRaises
    \/ ProcessExit
    \/ \E c \in Conns : SendRaises(c)
    \/ \E c \in Conns : RecvEOF(c)
    \/ \E c \in Conns : HandlerRaises(c)
    \/ \E c \in Conns : Reset(c)

Next == NextOK \/ Fault

\* a byte-count run (-n given, no -i): the clock plays no part in it
\* the state of the parts a transfer does not use
Transfer == num = None /\ ~is_server /\ \A t \in Printers : calls[t] = 0

InitBytes ==
    /\ Init /\ num_bytes # 0 /\ interval = 0 /\ duration \in {1, MaxDuration}
    /\ Transfer

Spec == InitBytes /\ [][Next]_vars

\* a byte-count run in which nothing fails; every thread that can run does
\* run, and bytes in a socket buffer are delivered
FairSpec ==
    /\ InitBytes
    /\ [][NextOK]_vars
    /\ WF_vars(Main)
    /\ WF_vars(Accept)
    /\ \A c \in Conns : WF_vars(Worker(c))
    /\ \A c \in Conns : WF_vars(Handler(c))

\* a run in duration mode or with the reporter, on the clock
NextTimed ==
    \/ Next
    \/ Tick
    \/ Report
    \/ \E c \in Conns : LoopEnter(c)
    \/ \E c \in Conns : SendDuration(c)

InitTimed == Init /\ (num_bytes = 0 \/ interval # 0) /\ Transfer

SpecTimed == InitTimed /\ [][NextTimed]_vars

\* the send_data threads of a client on the clock, in either mode, up to
\* their return; what the transport accepts stays in c2s
NextSend ==
    \/ Connect
    \/ StartThread
    \/ Tick
    \/ \E c \in Conns : SendBytes(c)
    \/ \E c \in Conns : LoopEnter(c)
    \/ \E c \in Conns : SendDuration(c)
    \/ \E c \in Conns : LoopExit(c)
    \/ \E c \in Conns : Return(c)

InitSend == Init /\ Transfer /\ interval = 0

SpecSend == InitSend /\ [][NextSend]_vars

\* a whole byte-count run of one connection with the reporter (-n and -i),
\* on the clock, in which nothing fails
NextRun ==
    \/ NextOK
    \/ Tick
    \/ Report

InitRun ==
    /\ Init /\ Transfer
    /\ interval # 0
    /\ parallel = 1
    /\ num_bytes \in 1..MaxTimedBytes

SpecRun == InitRun /\ [][NextRun]_vars

\* the threads of a byte-count client with the reporter (-n and -i): the
\* send_data workers and periodic_report, on the clock, up to their return
NextReport ==
    \/ Connect
    \/ StartThread
    \/ Tick
    \/ Report
    \/ \E c \in Conns : SendBytes(c)
    \/ \E c \in Conns : LoopExit(c)
    \/ \E c \in Conns : Return(c)

InitReport ==
    /\ Init /\ Transfer
    /\ interval # 0
    /\ num_bytes \in 1..MaxTimedBytes

SpecReport == InitReport /\ [][NextReport]_vars

\* ------------------------------------------------- main(): the -n option
\* validate_args: suffix = args.num[-2:].lower()
Suffix(n) == Lower(Last2(n))
\* validate_args lets the -n string through
ValidNum(n) ==
    /\ Suffix(n) \in {<<"b">>, <<"k", "b">>, <<"m", "b">>}
    /\ IsInt(AllButLast2(n))
    /\ ToInt(AllButLast2(n)) > 0

\* validate_args, the -n part: print_error ends the process, otherwise
\* args.num_bytes is set and main goes on to client_mode with args.num
ValidateArgs ==
    /\ aPc = "validate"
    /\ IF ValidNum(num)
       THEN /\ aPc' = "client"
            /\ args_num_bytes' =
                 ToInt(AllButLast2(num)) *
                   (IF Suffix(num) = <<"k", "b">> THEN 1000
                    ELSE IF Suffix(num) = <<"m", "b">> THEN 1000000 ELSE 1)
       ELSE /\ aPc' = "exit"
            /\ UNCHANGED args_num_bytes
    /\ UNCHANGED <<parallel, num_bytes, duration, interval, now, cliPc, idx,
                   netVars, workerVars, data_sent_ref, reportVars,
                   handlerVars, outVars, num, printVars>>

\* client_mode: num_bytes = int(num_bytes[:-2]) *
\* (1000 ** ['B', 'KB', 'MB'].index(num_bytes[-2:])); index raises ValueError
ConvertNum ==
    /\ aPc = "client"
    /\ LET k == Index(<<(<<"B">>), <<"K", "B">>, <<"M", "B">>>>, Last2(num))
       IN  IF k >= 0
           THEN /\ num_bytes' = ToInt(AllButLast2(num)) * Pow(1000, k)
                /\ aPc' = "run"
           ELSE /\ aPc' = "raised"
                /\ UNCHANGED num_bytes
    /\ UNCHANGED <<parallel, duration, interval, now, cliPc, idx, netVars,
                   workerVars, data_sent_ref, reportVars, handlerVars,
                   outVars, num, args_num_bytes, printVars>>

NextArgs == ValidateArgs \/ ConvertNum

InitArgs ==
    /\ Init /\ num # None
    /\ parallel = 1 /\ num_bytes = 0 /\ duration = 1 /\ interval = 0
    /\ ~is_server /\ \A t \in Printers : calls[t] = 0

\* main() up to the point where client_mode has its byte target
SpecArgs == InitArgs /\ [][NextArgs]_vars

\* --------------------------------- print_statistics, statement by statement
\* the key of header_printed the calls of this process use
Role == IF is_server THEN "server" ELSE "client"
\* one print call: a line (the header block counts as one) of thread t
Line(kind, t) == [kind |-> kind, by |-> t]
\* what the other threads' variables keep
PrintFrame ==
    UNCHANGED <<cfgVars, now, cliPc, idx, netVars, workerVars, data_sent_ref,
                reportVars, handlerVars, cliOut, srvOut, argVars, is_server>>

\* if not hasattr(print_statistics, "header_printed")
PrintHasAttr(t) ==
    /\ pPc[t] = "hasattr"
    /\ pPc' = [pPc EXCEPT ![t] = IF has_attr THEN "check" ELSE "setattr"]
    /\ UNCHANGED <<header_printed, has_attr, calls, stdout>>
    /\ PrintFrame

\* print_statistics.header_printed = {True: False, False: False}
PrintSetAttr(t) ==
    /\ pPc[t] = "setattr"
    /\ has_attr' = TRUE
    /\ header_printed' = [server |-> FALSE, client |-> FALSE]
    /\ pPc' = [pPc EXCEPT ![t] = "check"]
    /\ UNCHANGED <<calls, stdout>>
    /\ PrintFrame

\* if not print_statistics.header_printed[is_server]
PrintCheck(t) ==
    /\ pPc[t] = "check"
    /\ pPc' = [pPc EXCEPT ![t] = IF header_printed[Role] THEN "row" ELSE "header"]
    /\ UNCHANGED <<header_printed, has_attr, calls, stdout>>
    /\ PrintFrame

\* print(header block)
PrintHeader(t) ==
    /\ pPc[t] = "header"
    /\ stdout' = Append(stdout, Line("header", t))
    /\ pPc' = [pPc EXCEPT ![t] = "mark"]
    /\ UNCHANGED <<header_printed, has_attr, calls>>
    /\ PrintFrame

\* print_statistics.header_printed[is_server] = True
PrintMark(t) ==
    /\ pPc[t] = "mark"
    /\ header_printed' = [header_printed EXCEPT ![Role] = TRUE]
    /\ pPc' = [pPc EXCEPT ![t] = "row"]
    /\ UNCHANGED <<has_attr, calls, stdout>>
    /\ PrintFrame

\* print(data row)
PrintRow(t) ==
    /\ pPc[t] = "row"
    /\ stdout' = Append(stdout, Line("row", t))
    /\ pPc' = [pPc EXCEPT ![t] = "rule"]
    /\ UNCHANGED <<header_printed, has_attr, calls>>
    /\ PrintFrame

\* print('-' * 93); the call returns, and the thread's next call begins
PrintRule(t) ==
    /\ pPc[t] = "rule"
    /\ stdout' = Append(stdout, Line("rule", t))
    /\ calls' = [calls EXCEPT ![t] = @ - 1]
    /\ pPc' = [pPc EXCEPT ![t] = IF calls[t] = 1 THEN "off" ELSE "hasattr"]
    /\ UNCHANGED <<header_printed, has_attr>>
    /\ PrintFrame

NextPrint ==
    \/ \E t \in Printers : PrintHasAttr(t)
    \/ \E t \in Printers : PrintSetAttr(t)
    \/ \E t \in Printers : PrintCheck(t)
    \/ \E t \in Printers : PrintHeader(t)
    \/ \E t \in Printers : PrintMark(t)
    \/ \E t \in Printers : PrintRow(t)
    \/ \E t \in Printers : PrintRule(t)

\* the threads of one process that print: the handle_client threads of a
\* server (one record each), or the main thread and the reporter of a client
InitPrint ==
    /\ Init /\ num = None
    /\ parallel = 1 /\ num_bytes = 0 /\ duration = 1 /\ interval = 0
    /\ \E t \in Printers : calls[t] > 0
    /\ is_server => \A t \in Printers : calls[t] <= 1

SpecPrint == InitPrint /\ [][NextPrint]_vars

\* ------------------------------------------------------- derived views
\* number of filler bytes in a byte sequence
RECURSIVE FillerIn(_)
FillerIn(bytes) ==
    IF bytes = <<>> THEN 0
    ELSE (IF Head(bytes) = "0" THEN 1 ELSE 0) + FillerIn(Tail(bytes))
\* filler bytes of connection c the handler has read so far
FillerRead(c) == data_sent[c] - FillerIn(c2s[c])
\* the client has sent bye on connection c and waits for the answer
ByeSent(c) == cliPc = "recvack" /\ idx = c
\* the handler of c has left its receive loop through the sentinel test
Detected(c) == hPc[c] \in {"ack", "close", "print", "done"}
\* the final records printed so far by the server / the client
Finals(out) == SelectSeq(out, LAMBDA r : r.kind = "final")

\* ---------------------------------------------------------------- claims

\* C1: on every connection, once the client has sent the sentinel bye after
\* its filler bytes, the handler eventually leaves its receive loop, sends ack
\* and closes the connection, however the stream is cut into chunks.
C1_SentinelEndsHandler ==
    \A c \in Conns : ByeSent(c) ~> (Detected(c) /\ sSock[c] = "closed")

\* C2: the received total never contains a byte of the sentinel or of the
\* chunk that triggered detection: it is always the number of filler bytes
\* read, less the filler bytes of the triggering chunk once detection happened.
C2_TotalExcludesSentinel ==
    \A c \in Conns :
        (hPc[c] # "none" /\ ~reset[c]) =>
            data_received[c] =
                FillerRead(c) - (IF Detected(c) THEN FillerIn(data[c]) ELSE 0)

\* C3: every total T the server prints for a connection of a run with byte
\* target X satisfies X - bufferSize <= T <= X.
C3_ServerTotalNearTarget ==
    \A i \in 1..Len(srvOut) :
        srvOut[i].kind = "final" =>
            /\ num_bytes - BufferSize <= srvOut[i].bytes
            /\ srvOut[i].bytes <= num_bytes

\* C3 witness: a server record whose total is short of the target, because
\* filler bytes arrived in the chunk that held the sentinel
C3_Witness ==
    \E i \in 1..Len(srvOut) :
        /\ srvOut[i].kind = "final"
        /\ srvOut[i].bytes < num_bytes
        /\ srvOut[i].bytes > 0

\* C4: in byte-count mode a worker sends exactly num_bytes bytes and stops:
\* sent and remaining always add up to the target, every send call is
\* accepted for between 1 and min(buffer_size, remaining) bytes, remaining
\* drops by what was accepted, the loop is left only at remaining = 0, and
\* the returned total is the target.
C4_WorkerStep(c) ==
    LET accepted == Len(c2s'[c]) - Len(c2s[c]) IN
    /\ (wPc[c] = "loop" /\ data_sent'[c] # data_sent[c]) =>
          /\ accepted \in 1..Min(BufferSize, bytes_to_send[c])
          /\ data_sent'[c] = data_sent[c] + accepted
          /\ bytes_to_send'[c] = bytes_to_send[c] - accepted
    /\ (wPc[c] = "loop" /\ wPc'[c] = "sleep") => bytes_to_send[c] = 0
C4_WorkerState(c) ==
    /\ wPc[c] \in {"loop", "sleep", "returned", "raised"} =>
          data_sent[c] + bytes_to_send[c] = num_bytes
    /\ wPc[c] \in {"sleep", "returned"} => bytes_to_send[c] = 0
    /\ wPc[c] = "returned" => result[c][1] = num_bytes
C4_SendsExactlyTarget ==
    /\ [](\A c \in Conns : C4_WorkerState(c))
    /\ [][\A c \in Conns : C4_WorkerStep(c)]_vars

\* C4 witness: a worker has returned from a transfer that needed more than
\* one send call
C4_Witness ==
    \E c \in Conns :
        /\ wPc[c] = "returned"
        /\ num_bytes > BufferSize
        /\ result[c][1] = num_bytes

\* C5: a run with -P parallel in which nothing fails eventually has printed
\* exactly parallel client final records and parallel server records, one per
\* connection, and client_mode has returned.
C5_RunComplete ==
    /\ cliPc = "done"
    /\ Len(Finals(cliOut)) = parallel
    /\ Len(Finals(srvOut)) = parallel
    /\ \A c \in 1..parallel :
          /\ \E i \in 1..Len(cliOut) : cliOut[i].kind = "final" /\ cliOut[i].id = c
          /\ \E i \in 1..Len(srvOut) : srvOut[i].kind = "final" /\ srvOut[i].id = c
C5_AllRecordsEventually == <>C5_RunComplete

\* C6: the client's final records appear in the order the connections were
\* opened: the i-th final record is that of the i-th connection.
C6_FinalsInOpenOrder ==
    \A i \in 1..Len(Finals(cliOut)) : Finals(cliOut)[i].id = i

\* C6 witness: the final records of two connections have been printed
C6_Witness ==
    /\ parallel >= 2
    /\ Len(Finals(cliOut)) >= 2

\* C7: when recv returns the empty chunk, because the peer closed without
\* sending the sentinel, the handler leaves its receive loop.
C7_DisconnectEndsHandler ==
    [][\A c \in Conns : RecvEOF(c) => hPc'[c] # "recv"]_vars

\* C8: a step in which one handler is aborted by a read error changes nothing
\* of any other handler, of the other connections or of the accept queue; and
\* whatever has been aborted, a pending connection can be accepted and every
\* other handler can take its next step (read a chunk, send ack, close).
C8_AbortStep(c) ==
    (hPc[c] # "aborted" /\ hPc'[c] = "aborted") =>
        /\ \A d \in Conns \ {c} :
              /\ hPc'[d] = hPc[d]
              /\ data_received'[d] = data_received[d]
              /\ data'[d] = data[d]
              /\ sSock'[d] = sSock[d]
              /\ c2s'[d] = c2s[d]
              /\ s2c'[d] = s2c[d]
        /\ backlog' = backlog
        /\ srvOut' = srvOut
C8_OthersCanRun ==
    /\ backlog # <<>> => ENABLED Accept
    /\ \A d \in Conns :
          /\ (hPc[d] = "recv" /\ ~reset[d] /\ c2s[d] # <<>>) => ENABLED Recv(d)
          /\ (hPc[d] = "ack" /\ ~reset[d]) => ENABLED SendAck(d)
          /\ hPc[d] = "close" => ENABLED HandlerClose(d)
          /\ hPc[d] = "print" => ENABLED HandlerPrint(d)
C8_AbortIsLocal ==
    /\ []C8_OthersCanRun
    /\ [][\A c \in Conns : C8_AbortStep(c)]_vars

\* C8 witness: one handler was aborted and another one has gone through
\* sentinel, ack, close and its record
C8_Witness ==
    \E c, d \in Conns : hPc[c] = "aborted" /\ hPc[d] = "done"

\* C9: when the client's main thread has stopped after the send of worker c
\* raised, it stopped by returning from client_mode, not by an exception, and
\* every other connection d has had its final record printed and its socket
\* closed by the join loop.
C9_SiblingsFinish ==
    \A c, d \in 1..parallel :
        (/\ c # d
         /\ wPc[c] = "raised"
         /\ wPc[d] # "raised"
         /\ cliPc \in {"done", "crashed", "exited"}) =>
            /\ cliPc = "done"
            /\ cSock[d] = "closed"
            /\ \E i \in 1..Len(cliOut) :
                  cliOut[i].kind = "final" /\ cliOut[i].id = d

\* C10: the shared byte counter never decreases, and it no longer changes once
\* the worker of the first connection (the one the Reporter is given) has
\* left its send loop.
C10_CounterMonotone ==
    [][/\ data_sent_ref' >= data_sent_ref
       /\ wPc[1] \in {"sleep", "returned", "raised"} =>
             data_sent_ref' = data_sent_ref]_vars

\* C11: the shared counter has one writer, the worker of the first
\* connection: every step that changes the cell is a send of worker 1, and
\* once the workers run the cell holds the byte total of connection 1.
C11_SingleWriter ==
    /\ [](cliPc \notin {"connect", "start"} => data_sent_ref = data_sent[1])
    /\ [][data_sent_ref' # data_sent_ref =>
             (data_sent'[1] # data_sent[1] /\ data_sent_ref' = data_sent'[1])]_vars

\* C16 (as claimed): while a client final record is on the screen, every send
\* worker has returned.
C16_NoRecordBeforeAllReturned ==
    Finals(cliOut) # <<>> => \A c \in 1..parallel : wPc[c] = "returned"

\* C16 (amended): the final record of connection c is printed only after
\* worker c and the workers of all connections opened before c have returned;
\* workers of later connections may still be sending.
C16_RecordAfterOwnWorker ==
    \A i \in 1..Len(cliOut) :
        cliOut[i].kind = "final" =>
            \A c \in 1..cliOut[i].id : wPc[c] = "returned"

\* C16 witness: the record of connection 1 is printed while worker 2 is
\* still in its send loop
C16_Witness ==
    /\ parallel >= 2
    /\ \E i \in 1..Len(cliOut) : cliOut[i].kind = "final" /\ cliOut[i].id = 1
    /\ wPc[2] = "loop"

\* C19: on each client connection the events happen in the order: send loop
\* ended, final record printed, sentinel sent, acknowledgement received,
\* connection closed; no filler byte follows the sentinel.  On the server the
\* acknowledgement is sent at most once per connection, only after the
\* sentinel was detected, and the connection is closed only after it.
C19_SentinelOut(c) ==
    \/ \E i \in 1..Len(c2s[c]) : c2s[c][i] # "0"
    \/ data[c] # Unbound /\ \E i \in 1..Len(data[c]) : data[c][i] # "0"
    \/ Detected(c)

C19_ClosedByClient(c) == cSock[c] = "closed" /\ (c < idx \/ cliPc = "done")

C19_ClientOrder(c) ==
    /\ (\E i \in 1..Len(cliOut) : cliOut[i].kind = "final" /\ cliOut[i].id = c)
           => wPc[c] = "returned"
    /\ C19_SentinelOut(c)
           => \E i \in 1..Len(cliOut) :
                  cliOut[i].kind = "final" /\ cliOut[i].id = c
    /\ C19_ClosedByClient(c)
           => /\ hPc[c] \in {"close", "print", "done"}
              /\ Len(s2c[c]) < Len(Ack)
    /\ \A i, j \in 1..Len(c2s[c]) : (i < j /\ c2s[c][i] # "0") => c2s[c][j] # "0"

C19_ServerOrder(c) ==
    /\ Len(s2c[c]) <= Len(Ack)
    /\ sSock[c] = "closed" => hPc[c] \in {"print", "done"}

C19_Step(c) ==
    /\ data_sent'[c] # data_sent[c] => ~C19_SentinelOut(c)
    /\ Len(s2c'[c]) > Len(s2c[c])
           => (hPc[c] = "ack" /\ hPc'[c] = "close" /\ s2c[c] = <<>>)
    /\ hPc[c] \in {"close", "print", "done", "aborted"}
           => hPc'[c] \notin {"recv", "ack"}
    /\ (cSock[c] = "open" /\ C19_ClosedByClient(c)')
           => (cliPc = "close" /\ idx = c)

C19_HandshakeOrder ==
    /\ [](\A c \in Conns : C19_ClientOrder(c) /\ C19_ServerOrder(c))
    /\ [][\A c \in Conns : C19_Step(c)]_vars

\* C19 witness: two connections have gone through the whole sequence
C19_Witness ==
    /\ parallel = 2
    /\ cliPc = "done"
    /\ \A c \in 1..2 : hPc[c] = "done" /\ cSock[c] = "closed"

\* C15: every -n argument <n><suffix> with n positive and the suffix B, KB
\* or MB in any letter case is accepted, and the byte target the workers get
\* is n times 1, 1000 or 1000000.
C15_Factor(sfx) ==
    CASE Lower(sfx) = <<"b">> -> 1
      [] Lower(sfx) = <<"k", "b">> -> 1000
      [] Lower(sfx) = <<"m", "b">> -> 1000000

C15_AcceptedAndScaled ==
    \A n \in 1..MaxNum, sfx \in Suffixes :
        num = NumArg(n, sfx) =>
            /\ aPc \notin {"exit", "raised"}
            /\ aPc = "run" => num_bytes = n * C15_Factor(sfx)

\* C12: in every interleaving of the threads that print, the header of the
\* role is printed exactly once and before the first data row; the flag of
\* the other role is not touched.
C12_HeaderOnce ==
    /\ Cardinality({i \in 1..Len(stdout) : stdout[i].kind = "header"}) <= 1
    /\ stdout # <<>> => stdout[1].kind = "header"
    /\ ~header_printed[IF is_server THEN "client" ELSE "server"]

\* C20: every record is written as one piece: a data row is directly
\* followed by the rule of the same call, and a header block by the data row
\* of the same call.
C20_RecordsAtomic ==
    \A i \in 1..(Len(stdout) - 1) :
        /\ stdout[i].kind = "row" => stdout[i + 1] = Line("rule", stdout[i].by)
        /\ stdout[i].kind = "header" => stdout[i + 1] = Line("row", stdout[i].by)

\* C13: the client run never waits for the reporter: the last close is
\* never held back, whatever the reporter is doing, and the step after it is
\* the return of client_mode.
C13_NeverWaitsOnReporter ==
    /\ [](cliPc = "close" => ENABLED Close)
    /\ [][(cliPc = "close" /\ idx = parallel /\ cliPc' # cliPc)
             => cliPc' = "done"]_vars

\* C13 witness: the run has returned and the reporter, still in its sleep
\* with intervals left to report, was ended with the process
C13_Witness ==
    /\ cliPc = "done"
    /\ rPc = "killed"
    /\ current_interval < duration

\* C14: in duration mode a worker leaves its send loop only when duration has
\* elapsed since its own start; a worker at the loop test after that moment
\* never sends again, and every send is the body of one passed test, so at
\* most one send begins after the deadline; the elapsed time it returns is
\* at least duration.
C14_Step(c) ==
    /\ (wPc[c] \in {"loop", "send"} /\ wPc'[c] = "sleep")
           => now - start_time[c] >= duration
    /\ (wPc[c] = "loop" /\ now - start_time[c] >= duration)
           => (wPc'[c] # "send" /\ data_sent'[c] = data_sent[c])
    /\ data_sent'[c] # data_sent[c] => (wPc[c] = "send" /\ wPc'[c] = "loop")

C14_DurationRespected ==
    /\ [](\A c \in Conns :
            (num_bytes = 0 /\ wPc[c] = "returned") => result[c][2] >= duration)
    /\ [][num_bytes = 0 => \A c \in Conns : C14_Step(c)]_vars

\* C14 witness: a send whose loop test passed in time begins after the
\* deadline
C14_Witness ==
    /\ num_bytes = 0
    /\ \E c \in Conns : /\ wPc[c] = "send"
                        /\ data_sent[c] > 0
                        /\ now - start_time[c] >= duration

\* C17: in both modes the running total of a worker, the value it leaves in
\* the shared cell after a send and the total it returns are the number of
\* bytes the transport accepted from it.
C17_CountsAcceptedBytes ==
    \A c \in Conns :
        /\ data_sent[c] = FillerIn(c2s[c])
        /\ wPc[c] = "returned" => result[c][1] = FillerIn(c2s[c])

\* C18: the reporter prints one interim record per interval slept, never more
\* than ceil(duration / interval), and exactly that many when its loop ends;
\* it sleeps again only while the interval counter is below duration, each
\* record comes after one whole interval of sleep, and nothing is printed
\* after the loop.
C18_Interims == Len(SelectSeq(cliOut, LAMBDA r : r.kind = "interim"))

C18_Ceil == (duration + interval - 1) \div interval

C18_State ==
    rPc # "off" =>
        /\ C18_Interims * interval = current_interval
        /\ C18_Interims <= C18_Ceil
        /\ rPc = "sleep" => current_interval < duration
        /\ rPc = "done" => C18_Interims = C18_Ceil

C18_Step ==
    /\ C18_Interims' # C18_Interims =>
           /\ C18_Interims' = C18_Interims + 1
           /\ rPc = "sleep" /\ now >= rWake
           /\ rPc' = "sleep" => rWake' = now + interval
    /\ rPc \in {"done", "killed"} => C18_Interims' = C18_Interims

C18_RecordsPerDuration == []C18_State /\ [][C18_Step]_vars

\* C18 witness: duration 3 and interval 2: the loop has ended after two
\* records
C18_Witness ==
    /\ rPc = "done"
    /\ duration = 3 /\ interval = 2
    /\ C18_Interims = 2

\* C21: the sentinel goes out on connection k only after every connection
\* opened before k has had its acknowledgement received and has been closed
\* by the client; so the handler of k leaves its receive loop only after
\* workers 1..k have returned, and while the client waits for the
\* acknowledgement of a connection no later connection has its sentinel.
C21_ByeOut(k) == C19_SentinelOut(k) \/ ByeSent(k)

C21_HandshakeDone(c) ==
    /\ C19_ClosedByClient(c)
    /\ hPc[c] \in {"close", "print", "done"}
    /\ Len(s2c[c]) < Len(Ack)

C21_State(k) ==
    /\ C21_ByeOut(k) => \A c \in 1..(k - 1) : C21_HandshakeDone(c)
    /\ Detected(k) => \A c \in 1..k : wPc[c] = "returned"
    /\ (cliPc = "recvack" /\ idx < k) => ~C21_ByeOut(k)

C21_Step(k) ==
    (~C21_ByeOut(k) /\ C21_ByeOut(k)')
        => (cliPc = "bye" /\ idx = k /\ \A c \in 1..(k - 1) : C21_HandshakeDone(c))

C21_ByeInOpenOrder ==
    /\ [](\A k \in Conns : C21_State(k))
    /\ [][\A k \in Conns : C21_Step(k)]_vars

\* C21 witness: the handler of the second connection has finished through
\* the sentinel
C21_Witness ==
    /\ parallel = 2
    /\ hPc[2] = "done"
    /\ C21_HandshakeDone(1)

\* C22: every interim record reports a byte delta that is not negative, and
\* the deltas reported so far add up to the counter value read at the most
\* recent sample.
RECURSIVE C22_SumBytes(_)
C22_SumBytes(out) ==
    IF out = <<>> THEN 0
    ELSE (IF Head(out).kind = "interim" THEN Head(out).bytes ELSE 0)
         + C22_SumBytes(Tail(out))

C22_DeltasAddUp ==
    /\ \A i \in 1..Len(cliOut) :
           cliOut[i].kind = "interim" => cliOut[i].bytes >= 0
    /\ C22_SumBytes(cliOut) = prev_data_sent

====
